---- MODULE Spec2Model ----
(***************************************************************************)
(* ACI transport layer (libraries/BLE/hal_aci_tl.cpp): the two bounded     *)
(* packet queues, the transaction engine hal_aci_tl_poll_get, the ready-   *)
(* line handler m_rdy_line_handle and the send / event API.                *)
(*                                                                         *)
(* Memory is modelled at byte level.  One hal_aci_data_t slot is the       *)
(* status byte followed by buffer[0..HAL_ACI_MAX_LENGTH]; the slots of a   *)
(* queue are contiguous, so a memcpy of more than HAL_ACI_MAX_LENGTH+1     *)
(* bytes into a slot runs on into the slots that follow it.  Bytes that    *)
(* would land past the last slot leave the slot array; the layout of the   *)
(* memory there is not fixed by this source file and is not tracked.       *)
(***************************************************************************)
EXTENDS Integers, Sequences, FiniteSets, TLC

\* ------------------------------------------------------------------ sizes
\* The sizes hal_aci_tl.h sets, scaled down.
ACI_QUEUE_SIZE == 3
HAL_ACI_MAX_LENGTH == 2
\* Largest value of a (scaled) uint8_t: large enough for a declared length
\* whose copy covers the whole slot after the one written.
MaxByte == 8
\* Largest number of enqueue calls in one run of the queue specification.
MaxOps == 4
\* Largest number of hal_aci_tl_send calls, transactions and flushes, taken
\* together, in one run of the transport specification.
MaxInputs == 4

Byte == 0..MaxByte
BufIdx == 0..HAL_ACI_MAX_LENGTH
SlotIdx == 0..(ACI_QUEUE_SIZE - 1)
\* sizeof(hal_aci_data_t): status_byte + buffer[HAL_ACI_MAX_LENGTH + 1]
SlotSize == HAL_ACI_MAX_LENGTH + 2
MemSize == ACI_QUEUE_SIZE * SlotSize

\* A hal_aci_data_t value.
hal_aci_data_t == [status_byte : Byte, buffer : [BufIdx -> Byte]]

\* Payload bytes callers and the device put into packets.
PayloadVals == {1, 2}
\* Values of the bytes that lie behind a hal_aci_data_t in memory (read when
\* memcpy is asked for more bytes than the buffer holds).
OverreadVals == {0, MaxByte}

\* The packet whose length byte is len and whose payload bytes are all v.
MkPacket(len, v) ==
  [status_byte |-> 0, buffer |-> [i \in BufIdx |-> IF i = 0 THEN len ELSE v]]

\* ------------------------------------------------------------ the queue
\* Offsets of slot i in the slot array aci_data[].
StatusAddr(i) == i * SlotSize
BufferAddr(i, j) == i * SlotSize + 1 + j

\* aci_data[i] read as one hal_aci_data_t (memcpy of sizeof(hal_aci_data_t)).
SlotAt(q, i) ==
  [status_byte |-> q.aci_data[StatusAddr(i)],
   buffer |-> [j \in BufIdx |-> q.aci_data[BufferAddr(i, j)]]]

\* m_aci_q_init: head = tail = 0, buffer[0] and buffer[1] of every slot
\* cleared; the other bytes keep their value (old is the memory before).
m_aci_q_init(old) ==
  [head |-> 0, tail |-> 0,
   aci_data |-> [a \in 0..(MemSize - 1) |->
      IF \E i \in SlotIdx : a = BufferAddr(i, 0) \/ a = BufferAddr(i, 1)
      THEN 0 ELSE old[a]]]

\* Zero-initialised static storage.
ZeroMem == [a \in 0..(MemSize - 1) |-> 0]

\* The k-th byte memcpy reads starting at &p_data->buffer[0]; over is the
\* value found behind the buffer.
SrcByte(p_data, k, over) ==
  IF k <= HAL_ACI_MAX_LENGTH THEN p_data.buffer[k] ELSE over

\* m_aci_q_enqueue without its full check.
m_aci_q_enqueue_bug_full(aci_q, p_data, over) ==
  LET next == (aci_q.tail + 1) % ACI_QUEUE_SIZE
      length == p_data.buffer[0]
      dst == BufferAddr(aci_q.tail, 0)
  IN [q |-> [aci_q EXCEPT
                   !.aci_data = [a \in 0..(MemSize - 1) |->
                      IF a = StatusAddr(aci_q.tail) THEN 0
                      ELSE IF a >= dst /\ a < dst + length + 1
                           THEN SrcByte(p_data, a - dst, over)
                           ELSE aci_q.aci_data[a]],
                   !.tail = next],
      ret |-> TRUE]

\* m_aci_q_enqueue: [q |-> the queue afterwards, ret |-> the return value].
m_aci_q_enqueue(aci_q, p_data, over) ==
  LET next == (aci_q.tail + 1) % ACI_QUEUE_SIZE
      length == p_data.buffer[0]
      dst == BufferAddr(aci_q.tail, 0)
  IN IF next = aci_q.head
     THEN [q |-> aci_q, ret |-> FALSE]
     ELSE [q |-> [aci_q EXCEPT
                   !.aci_data = [a \in 0..(MemSize - 1) |->
                      IF a = StatusAddr(aci_q.tail) THEN 0
                      ELSE IF a >= dst /\ a < dst + length + 1
                           THEN SrcByte(p_data, a - dst, over)
                           ELSE aci_q.aci_data[a]],
                   !.tail = next],
           ret |-> TRUE]

\* m_aci_q_dequeue copying from the slot at tail.
m_aci_q_dequeue_bug_head(aci_q, old_data) ==
  IF aci_q.head = aci_q.tail
  THEN [q |-> aci_q, ret |-> FALSE, data |-> old_data]
  ELSE [q |-> [aci_q EXCEPT !.head = (aci_q.head + 1) % ACI_QUEUE_SIZE],
        ret |-> TRUE, data |-> SlotAt(aci_q, aci_q.tail)]

\* m_aci_q_dequeue: [q, ret, data]; data is *p_data afterwards (old_data
\* when nothing was copied).
m_aci_q_dequeue(aci_q, old_data) ==
  IF aci_q.head = aci_q.tail
  THEN [q |-> aci_q, ret |-> FALSE, data |-> old_data]
  ELSE [q |-> [aci_q EXCEPT !.head = (aci_q.head + 1) % ACI_QUEUE_SIZE],
        ret |-> TRUE, data |-> SlotAt(aci_q, aci_q.head)]

\* m_aci_q_peek: [ret, data].
m_aci_q_peek(aci_q, old_data) ==
  IF aci_q.head = aci_q.tail
  THEN [ret |-> FALSE, data |-> old_data]
  ELSE [ret |-> TRUE, data |-> SlotAt(aci_q, aci_q.head)]

m_aci_q_is_empty(aci_q) == aci_q.head = aci_q.tail

\* m_aci_q_is_full: the value it returns (it also ends with interrupts()).
m_aci_q_is_full(aci_q) ==
  LET next == (aci_q.tail + 1) % ACI_QUEUE_SIZE
  IN next = aci_q.head

\* ------------------------------------------------- the transaction engine
\* What the device drives in one transaction: its status byte, its length
\* byte and the value of its payload bytes.
DevLens == {0, 1, HAL_ACI_MAX_LENGTH, MaxByte}
DevStatus == {1}
DevVals == {1}
DevInputs == [status : DevStatus, len : DevLens, val : DevVals]

\* The bytes behind received_data are read only when the length byte the
\* device declared makes memcpy run past the buffer.
OverFor(dev) == IF dev.len > HAL_ACI_MAX_LENGTH THEN OverreadVals ELSE {0}

\* The k-th byte the device clocks out after its length byte (k >= 1).
DevByte(dev, k) == IF k <= dev.len THEN dev.val ELSE 0

\* max_bytes taken from the host's length byte itself.
NegotiatedBytes_bug(Lh, Ld) ==
  IF 0 = Lh THEN Ld ELSE IF Ld > Lh THEN Ld ELSE Lh

\* max_bytes before the clamp (lines 401-410).
NegotiatedBytes(Lh, Ld) ==
  IF 0 = Lh THEN Ld ELSE IF Ld > (Lh - 1) THEN Ld ELSE (Lh - 1)

\* max_bytes after the clamp (lines 412-415).
ClampBytes(n) == IF n > HAL_ACI_MAX_LENGTH THEN HAL_ACI_MAX_LENGTH ELSE n

\* The events of one transaction on the pins, in program order: a write of
\* the request line (tx is the level) or one spi_readwrite (tx the byte sent,
\* rx the byte received).
ReqnWrite(level) == [op |-> "reqn", tx |-> level, rx |-> 0]
SpiTransfer(out, in) == [op |-> "spi", tx |-> out, rx |-> in]

\* data_to_send.buffer[k] as spi_readwrite is handed it; index
\* HAL_ACI_MAX_LENGTH+1 lies behind the buffer, on the stack.
SendByte(data_to_send, k, stack) ==
  IF k <= HAL_ACI_MAX_LENGTH THEN data_to_send.buffer[k] ELSE stack

\* The request line hal_aci_tl_poll_get never lowers again.
poll_get_reqn_bug(tx) == <<ReqnWrite(1)>>

\* The request line at the end of hal_aci_tl_poll_get (lines 423-437): the
\* writes made, the last one being the level the line is left at.
poll_get_reqn(tx) ==
  IF ~m_aci_q_is_empty(tx) THEN <<ReqnWrite(1), ReqnWrite(0)>>
  ELSE <<ReqnWrite(1)>>

\* m_aci_q_dequeue of the outgoing queue into the local data_to_send (line
\* 387); stack is the value of the uninitialised bytes of that local.
poll_get_dequeue(tx, stack) ==
  m_aci_q_dequeue(tx, [status_byte |-> stack,
                       buffer |-> [j \in BufIdx |-> stack]])

\* data_to_send once the dequeue has returned deq (lines 387-392): the
\* command taken, or the local with only status_byte and buffer[0] set.
poll_get_data_to_send(deq, stack) ==
  IF deq.ret THEN deq.data
  ELSE [status_byte |-> 0,
        buffer |-> [j \in BufIdx |-> IF j = 0 THEN 0 ELSE stack]]

\* max_bytes of the transaction (lines 401-415).
poll_get_max_bytes(data_to_send, dev) ==
  ClampBytes(NegotiatedBytes(data_to_send.buffer[0], dev.len))

\* received_data after the transaction (lines 398-421); rd is its old value.
poll_get_received(rd, dev, max_bytes) ==
  [status_byte |-> dev.status,
   buffer |-> [j \in BufIdx |->
      IF j = 0 THEN dev.len
      ELSE IF j <= max_bytes THEN DevByte(dev, j)
      ELSE rd.buffer[j]]]

\* What the transaction does on the pins (lines 384-437).
poll_get_io(data_to_send, dev, stack, max_bytes, tail_writes) ==
  <<ReqnWrite(0),
    SpiTransfer(SendByte(data_to_send, 0, stack), dev.status),
    SpiTransfer(SendByte(data_to_send, 1, stack), dev.len)>>
  \o [k \in 1..max_bytes |->
        SpiTransfer(SendByte(data_to_send, k + 1, stack), DevByte(dev, k))]
  \o tail_writes

\* The globals after hal_aci_tl_poll_get, given what its dequeue returned
\* and the max_bytes it computed.
poll_get_transfer(s, dev, deq, max_bytes, tail_writes) ==
  [s EXCEPT
     !.tx = deq.q,
     !.rd = poll_get_received(s.rd, dev, max_bytes),
     !.attached = IF s.mode THEN TRUE ELSE s.attached,
     !.reqn = tail_writes[Len(tail_writes)].tx]

\* hal_aci_tl_poll_get on the transport state s (a record of the globals)
\* with the device driving dev.
hal_aci_tl_poll_get(s, dev, stack) ==
  LET deq == poll_get_dequeue(s.tx, stack)
  IN poll_get_transfer(s, dev, deq,
       poll_get_max_bytes(poll_get_data_to_send(deq, stack), dev),
       poll_get_reqn(deq.q))

\* The record of a transaction: the two length bytes, max_bytes, whether a
\* command was taken from the outgoing queue, data_to_send and the pins.
poll_get_record(dev, stack, deq, data_to_send, max_bytes) ==
  [n |-> 1, Lh |-> data_to_send.buffer[0], Ld |-> dev.len,
   max_bytes |-> max_bytes,
   last_idx |-> max_bytes,
   took |-> deq.ret,
   cmd |-> data_to_send,
   io |-> poll_get_io(data_to_send, dev, stack, max_bytes,
                      poll_get_reqn(deq.q))]

\* The record of the transaction hal_aci_tl_poll_get makes in state s.
poll_get_txn(s, dev, stack) ==
  LET deq == poll_get_dequeue(s.tx, stack)
  IN poll_get_record(dev, stack, deq, poll_get_data_to_send(deq, stack),
       poll_get_max_bytes(poll_get_data_to_send(deq, stack), dev))

\* m_rdy_line_handle from the test of the received length to the return of
\* m_aci_q_is_full (lines 191-201); s2 is the state after
\* hal_aci_tl_poll_get, enq what m_aci_q_enqueue would return.
m_rdy_line_handle_received(s2, enq) ==
  IF s2.rd.buffer[0] > 0
  THEN IF ~enq.ret
       THEN [s |-> [s2 EXCEPT !.halted = TRUE], enq |-> FALSE, full |-> FALSE]
       ELSE [s |-> [s2 EXCEPT !.rx = enq.q], enq |-> TRUE,
             full |-> m_aci_q_is_full(enq.q)]
  ELSE [s |-> s2, enq |-> FALSE, full |-> FALSE]

\* The same with the enqueue of received_data into the incoming queue.
m_rdy_line_handle_enqueue(s2, over) ==
  m_rdy_line_handle_received(s2, m_aci_q_enqueue(s2.rx, s2.rd, over))

\* m_rdy_line_handle up to the return of m_aci_q_is_full (lines 180-201):
\* [s |-> state afterwards, enq |-> an event was enqueued,
\*  full |-> what m_aci_q_is_full returned].
m_rdy_line_handle_head(s, dev, stack, over) ==
  m_rdy_line_handle_enqueue(
    hal_aci_tl_poll_get(
      [s EXCEPT !.attached = IF s.mode THEN FALSE ELSE s.attached], dev, stack),
    over)

\* The rest of m_rdy_line_handle (lines 201-211): the mask decision.
m_rdy_line_handle_tail(s, full) ==
  IF full /\ s.mode THEN [s EXCEPT !.eimsk = FALSE] ELSE s

\* m_rdy_line_handle from the return of m_aci_q_is_full on; h is what
\* m_rdy_line_handle_head gave.
m_rdy_line_handle_rest(h) ==
  IF h.s.halted \/ ~h.enq THEN h.s ELSE m_rdy_line_handle_tail(h.s, h.full)

\* m_rdy_line_handle called inline (host-polled mode).
m_rdy_line_handle(s, dev, stack, over) ==
  m_rdy_line_handle_rest(m_rdy_line_handle_head(s, dev, stack, over))

\* m_aci_device_query asking for a transaction whenever the incoming queue
\* has room.
m_aci_device_query_bug(s, rdyn, dev, stack, over) ==
  IF 0 = rdyn
  THEN m_rdy_line_handle(s, dev, stack, over)
  ELSE IF ~m_aci_q_is_full(s.rx)
       THEN [s EXCEPT !.reqn = 0]
       ELSE s

\* m_aci_device_query; rdyn is the level read from the ready line.
m_aci_device_query(s, rdyn, dev, stack, over) ==
  IF 0 = rdyn
  THEN m_rdy_line_handle(s, dev, stack, over)
  ELSE IF ~m_aci_q_is_empty(s.tx) /\ ~m_aci_q_is_full(s.rx)
       THEN [s EXCEPT !.reqn = 0]
       ELSE s

\* ------------------------------------------------------------- the state
VARIABLES
  \* one queue driven directly through the queue functions
  tq,        \* the queue
  nenq,      \* number of successful m_aci_q_enqueue calls
  ndeq,      \* number of successful m_aci_q_dequeue calls
  fifo,      \* the packets handed to the successful enqueues, oldest first,
             \* without those already dequeued
  last,      \* the last queue call: what it was asked and what it returned
  \* the transport
  interface_is_interrupt,  \* a_pins_local_ptr->interface_is_interrupt
  aci_tx_q,
  aci_rx_q,
  received_data,
  reqn,      \* level of the request line (reqn_pin)
  attached,  \* the ready-line interrupt is attached (attachInterrupt)
  EIMSK_INT1,\* bit 0x2 of EIMSK: the ready-line interrupt is not masked
  SREG_I,    \* global interrupt enable
  pc,        \* where the main context is
  p_aci_cmd, \* argument of the running hal_aci_tl_send
  was_full,  \* local of the running hal_aci_tl_event_get
  p_aci_data,\* *p_aci_data of the caller of event_get / event_peek
  isr,       \* suspended or running handler invocations, innermost last:
             \* what m_aci_q_is_full returned to each
  halted,    \* the handler spins in while(1)
  ret,       \* the last API call that returned: its name and return value
  txn,       \* the last transaction of hal_aci_tl_poll_get
  used,      \* number of send calls, transactions and flushes so far
  obs        \* history kept for the properties

qvars == <<tq, nenq, ndeq, fifo, last>>
tvars == <<interface_is_interrupt, aci_tx_q, aci_rx_q, received_data, reqn,
           attached, EIMSK_INT1, SREG_I, pc, p_aci_cmd, was_full, p_aci_data,
           isr, halted, ret, txn, used, obs>>
vars == <<qvars, tvars>>

ZeroPacket == MkPacket(0, 0)
NoTxn == [n |-> 0, Lh |-> 0, Ld |-> 0, max_bytes |-> 0, last_idx |-> 0,
          took |-> FALSE, cmd |-> ZeroPacket, io |-> <<>>]
NoLast == [op |-> "init", ret |-> FALSE, data |-> ZeroPacket,
           arg |-> ZeroPacket, cnt |-> 0, expect |-> ZeroPacket]

\* The meaningful bytes of two packets agree: the length byte and the payload
\* bytes the buffer has room for.
SamePacket(a, b) ==
  /\ a.buffer[0] = b.buffer[0]
  /\ \A j \in BufIdx : (j >= 1 /\ j <= b.buffer[0]) => a.buffer[j] = b.buffer[j]

\* --------------------------------------------------------- the transport
\* The globals as one record, and their assignment from such a record.
Cur ==
  [mode |-> interface_is_interrupt, tx |-> aci_tx_q, rx |-> aci_rx_q,
   rd |-> received_data, reqn |-> reqn, attached |-> attached,
   eimsk |-> EIMSK_INT1, halted |-> halted]

Assign(s) ==
  /\ aci_tx_q' = s.tx
  /\ aci_rx_q' = s.rx
  /\ received_data' = s.rd
  /\ reqn' = s.reqn
  /\ attached' = s.attached
  /\ EIMSK_INT1' = s.eimsk
  /\ halted' = s.halted
  /\ interface_is_interrupt' = interface_is_interrupt

\* Packets callers hand to hal_aci_tl_send.
CmdInputs == {MkPacket(len, 2) : len \in 0..(HAL_ACI_MAX_LENGTH + 1)}
\* Values of uninitialised stack bytes.
StackVals == {0, MaxByte}
NoDev == [status |-> 1, len |-> 0, val |-> 1]

\* History kept for the properties (no effect on the transport).
\*   phase, ev : where the run stands in the scenario "init, one accepted
\*               send, one transaction with an event, event_get, event_get",
\*               and the event of that transaction
\*   deq_full  : the incoming queue was full when the running event_get
\*               advanced its head
\*   pk_valid, pk : an event_peek has returned true with pk and no event_get
\*               has returned since
\*   pk_chk    : the last API call that returned is such an event_get
ObsInit ==
  [phase |-> "init", ev |-> NoDev, deq_full |-> FALSE,
   pk_valid |-> FALSE, pk |-> ZeroPacket, pk_chk |-> FALSE]

\* pk is kept only while it is due to be compared.
NormObs(o) ==
  IF ~o.pk_valid /\ ~o.pk_chk THEN [o EXCEPT !.pk = ZeroPacket] ELSE o

\* The scenario after a transaction in which the device drove dev.
PhaseTxn(o, dev) ==
  IF o.phase = "sent"
  THEN IF dev.len >= 1 THEN [o EXCEPT !.phase = "answered", !.ev = dev]
       ELSE [o EXCEPT !.phase = "off"]
  ELSE IF o.phase \in {"answered", "got", "done"} /\ dev.len = 0 THEN o
  ELSE [o EXCEPT !.phase = "off", !.ev = NoDev]

\* The scenario after an event_get has returned.
PhaseGet(o) ==
  IF o.phase = "answered" THEN [o EXCEPT !.phase = "got"]
  ELSE IF o.phase = "got" THEN [o EXCEPT !.phase = "done"]
  ELSE IF o.phase = "sent" THEN o
  ELSE [o EXCEPT !.phase = "off", !.ev = NoDev]

QInitVars ==
  /\ tq = m_aci_q_init(ZeroMem)
  /\ nenq = 0 /\ ndeq = 0 /\ fifo = <<>> /\ last = NoLast

\* The transport after hal_aci_tl_init.
TInitVars ==
  /\ aci_tx_q = m_aci_q_init(ZeroMem)
  /\ aci_rx_q = m_aci_q_init(ZeroMem)
  /\ received_data = ZeroPacket
  /\ reqn = 1
  /\ attached = interface_is_interrupt
  /\ EIMSK_INT1 = TRUE
  /\ SREG_I = TRUE
  /\ pc = "idle"
  /\ p_aci_cmd = ZeroPacket
  /\ was_full = FALSE
  /\ p_aci_data = ZeroPacket
  /\ isr = <<>>
  /\ halted = FALSE
  /\ ret = [op |-> "init", val |-> FALSE]
  /\ txn = NoTxn
  /\ used = 0

MainRuns == isr = <<>> /\ ~halted

\* hal_aci_tl_send_copy without the length check.
hal_aci_tl_send_copy_bug(tx, p) ==
  LET r == m_aci_q_enqueue(tx, p, 0)
  IN IF ~r.ret THEN [ok |-> FALSE, q |-> tx]
     ELSE [ok |-> TRUE, q |-> [r.q EXCEPT !.tail = tx.tail]]

\* hal_aci_tl_send up to the memcpy of m_aci_q_enqueue (lines 347-356 and
\* 62-72): [ok |-> the packet is accepted, q |-> the outgoing queue with the
\* slot at tail written and tail not yet advanced].
hal_aci_tl_send_copy(tx, p) ==
  LET length == p.buffer[0]
      r == m_aci_q_enqueue(tx, p, 0)
  IN IF length > HAL_ACI_MAX_LENGTH THEN [ok |-> FALSE, q |-> tx]
     ELSE IF ~r.ret THEN [ok |-> FALSE, q |-> tx]
     ELSE [ok |-> TRUE, q |-> [r.q EXCEPT !.tail = tx.tail]]

\* hal_aci_tl_send, first step: the length check, the full check and the copy.
SendCall(p) ==
  /\ MainRuns /\ pc = "idle"
  /\ used < MaxInputs
  /\ used' = used + 1
  /\ LET r == hal_aci_tl_send_copy(aci_tx_q, p)
     IN /\ aci_tx_q' = r.q
        /\ pc' = IF r.ok THEN "send_tail" ELSE "idle"
        /\ ret' = IF r.ok THEN ret ELSE [op |-> "send", val |-> FALSE]
        /\ p_aci_cmd' = IF r.ok THEN p ELSE p_aci_cmd
        /\ obs' = NormObs([obs EXCEPT !.pk_chk = IF r.ok THEN @ ELSE FALSE,
                     !.phase = IF r.ok /\ @ = "init" THEN "sending" ELSE "off",
                     !.ev = NoDev])
  /\ UNCHANGED <<interface_is_interrupt, aci_rx_q, received_data, reqn,
                 attached, EIMSK_INT1, SREG_I, was_full, p_aci_data, isr,
                 halted, txn>>
  /\ UNCHANGED qvars

\* m_aci_q_enqueue inside send, last step: aci_q->tail = next.
SendTail ==
  /\ MainRuns /\ pc = "send_tail"
  /\ aci_tx_q' = [aci_tx_q EXCEPT !.tail = (aci_tx_q.tail + 1) % ACI_QUEUE_SIZE]
  /\ pc' = "send_reqn"
  /\ UNCHANGED <<interface_is_interrupt, aci_rx_q, received_data, reqn,
                 attached, EIMSK_INT1, SREG_I, p_aci_cmd, was_full, p_aci_data,
                 isr, halted, ret, txn, obs>>
  /\ UNCHANGED <<used, qvars>>

\* hal_aci_tl_send, last step: the request line is driven low, return true.
SendReqn ==
  /\ MainRuns /\ pc = "send_reqn"
  /\ reqn' = 0
  /\ ret' = [op |-> "send", val |-> TRUE]
  /\ pc' = "idle"
  /\ p_aci_cmd' = ZeroPacket
  /\ obs' = NormObs([obs EXCEPT !.pk_chk = FALSE,
               !.phase = IF @ = "sending" THEN "sent" ELSE "off"])
  /\ UNCHANGED <<interface_is_interrupt, aci_tx_q, aci_rx_q, received_data,
                 attached, EIMSK_INT1, SREG_I, was_full, p_aci_data,
                 isr, halted, txn>>
  /\ UNCHANGED <<used, qvars>>

\* The line check that event_peek and event_get start with in host-polled
\* mode (lines 246-249, 267-270); nothing in edge-interrupt mode.
LineCheck(s, rdyn, dev, stack, over) ==
  IF ~s.mode THEN m_aci_device_query(s, rdyn, dev, stack, over) ELSE s

\* The inputs of a line check that can matter.
CheckInputs(rdyn, dev) ==
  /\ interface_is_interrupt => (rdyn = 1)
  /\ rdyn = 1 => dev = NoDev

\* hal_aci_tl_event_get, first step: the line check and
\* was_full = m_aci_q_is_full(&aci_rx_q), which ends with interrupts().
GetCall(rdyn, dev, stack, over) ==
  /\ MainRuns /\ pc = "idle"
  /\ CheckInputs(rdyn, dev)
  /\ rdyn = 0 => used < MaxInputs
  /\ used' = IF rdyn = 0 THEN used + 1 ELSE used
  /\ LET s1 == LineCheck(Cur, rdyn, dev, stack, over)
     IN /\ Assign(s1)
        /\ was_full' = IF s1.halted THEN was_full ELSE m_aci_q_is_full(s1.rx)
        /\ pc' = IF s1.halted THEN "idle" ELSE "get_deq"
        /\ obs' = NormObs([(IF rdyn = 0 THEN PhaseTxn(obs, dev) ELSE obs)
                             EXCEPT !.pk_chk = FALSE])
  /\ SREG_I' = TRUE
  /\ UNCHANGED <<p_aci_cmd, p_aci_data, isr, ret, txn>>
  /\ UNCHANGED qvars

\* m_aci_q_dequeue inside event_get: the empty check and the memcpy.
GetDeq ==
  /\ MainRuns /\ pc = "get_deq"
  /\ LET d == m_aci_q_dequeue(aci_rx_q, p_aci_data)
     IN /\ p_aci_data' = d.data
        /\ pc' = IF d.ret THEN "get_head" ELSE "idle"
        /\ ret' = IF d.ret THEN ret ELSE [op |-> "get", val |-> FALSE]
        /\ was_full' = IF d.ret THEN was_full ELSE FALSE
        /\ obs' = IF d.ret THEN obs
                  ELSE NormObs([PhaseGet(obs) EXCEPT !.pk_chk = obs.pk_valid,
                                                     !.pk_valid = FALSE])
  /\ UNCHANGED <<interface_is_interrupt, aci_tx_q, aci_rx_q, received_data,
                 reqn, attached, EIMSK_INT1, SREG_I, p_aci_cmd, isr,
                 halted, txn>>
  /\ UNCHANGED <<used, qvars>>

\* m_aci_q_dequeue inside event_get, last step: head = (head + 1) % size.
GetHead ==
  /\ MainRuns /\ pc = "get_head"
  /\ aci_rx_q' = [aci_rx_q EXCEPT !.head = (aci_rx_q.head + 1) % ACI_QUEUE_SIZE]
  /\ pc' = "get_unmask"
  /\ obs' = [obs EXCEPT !.deq_full = m_aci_q_is_full(aci_rx_q)]
  /\ UNCHANGED <<interface_is_interrupt, aci_tx_q, received_data, reqn,
                 attached, EIMSK_INT1, SREG_I, p_aci_cmd, was_full, p_aci_data,
                 isr, halted, ret, txn>>
  /\ UNCHANGED <<used, qvars>>

\* EIMSK after the unmask decision of event_get (lines 282-286).
event_get_unmask(eimsk, full, mode) ==
  IF full /\ mode THEN TRUE ELSE eimsk

\* hal_aci_tl_event_get, last step: the unmask decision, return true.
GetUnmask ==
  /\ MainRuns /\ pc = "get_unmask"
  /\ EIMSK_INT1' = event_get_unmask(EIMSK_INT1, was_full, interface_is_interrupt)
  /\ ret' = [op |-> "get", val |-> TRUE]
  /\ pc' = "idle"
  /\ was_full' = FALSE
  /\ obs' = NormObs([PhaseGet(obs) EXCEPT !.pk_chk = obs.pk_valid,
                                         !.pk_valid = FALSE])
  /\ UNCHANGED <<interface_is_interrupt, aci_tx_q, aci_rx_q, received_data,
                 reqn, attached, SREG_I, p_aci_cmd, p_aci_data, isr,
                 halted, txn>>
  /\ UNCHANGED <<used, qvars>>

\* hal_aci_tl_event_peek.
PeekCall(rdyn, dev, stack, over) ==
  /\ MainRuns /\ pc = "idle"
  /\ CheckInputs(rdyn, dev)
  /\ rdyn = 0 => used < MaxInputs
  /\ used' = IF rdyn = 0 THEN used + 1 ELSE used
  /\ LET s1 == LineCheck(Cur, rdyn, dev, stack, over)
         r == m_aci_q_peek(s1.rx, p_aci_data)
         o1 == IF rdyn = 0 THEN PhaseTxn(obs, dev) ELSE obs
     IN /\ Assign(s1)
        /\ p_aci_data' = IF s1.halted THEN p_aci_data ELSE r.data
        /\ ret' = IF s1.halted THEN ret ELSE [op |-> "peek", val |-> r.ret]
        /\ obs' = IF s1.halted THEN o1
                  ELSE NormObs([o1 EXCEPT !.pk_chk = FALSE,
                          !.pk_valid = IF r.ret THEN TRUE ELSE @,
                          !.pk = IF r.ret THEN r.data ELSE @])
  /\ UNCHANGED <<SREG_I, pc, p_aci_cmd, was_full, isr, txn>>
  /\ UNCHANGED qvars

\* hal_aci_tl_rx_q_empty, hal_aci_tl_rx_q_full, hal_aci_tl_tx_q_empty,
\* hal_aci_tl_tx_q_full.
QueueState(which) ==
  /\ MainRuns /\ pc = "idle"
  /\ ret' = [op |-> "state",
             val |-> CASE which = "rx_q_empty" -> m_aci_q_is_empty(aci_rx_q)
                       [] which = "rx_q_full" -> m_aci_q_is_full(aci_rx_q)
                       [] which = "tx_q_empty" -> m_aci_q_is_empty(aci_tx_q)
                       [] which = "tx_q_full" -> m_aci_q_is_full(aci_tx_q)]
  /\ obs' = NormObs([obs EXCEPT !.pk_chk = FALSE])
  \* m_aci_q_is_full ends with interrupts()
  /\ SREG_I' = IF which \in {"rx_q_full", "tx_q_full"} THEN TRUE ELSE SREG_I
  /\ UNCHANGED <<interface_is_interrupt, aci_tx_q, aci_rx_q, received_data,
                 reqn, attached, EIMSK_INT1, pc, p_aci_cmd, was_full,
                 p_aci_data, isr, halted, txn>>
  /\ UNCHANGED <<used, qvars>>

\* The ready-line interrupt can be taken: edge-interrupt mode, interrupts
\* enabled globally, the interrupt attached and not masked.  (The device
\* decides when the ready line is low.)
IntrEnabled ==
  interface_is_interrupt /\ SREG_I /\ attached /\ EIMSK_INT1 /\ ~halted

\* The interrupt is taken: m_rdy_line_handle runs with interrupts disabled
\* up to the interrupts() at the end of m_aci_q_is_full, or to its return
\* when nothing was received, or into while(1).
ISR(dev, stack, over) ==
  /\ IntrEnabled
  /\ used < MaxInputs
  /\ used' = used + 1
  /\ LET h == m_rdy_line_handle_head(Cur, dev, stack, over)
     IN /\ Assign(h.s)
        /\ isr' = IF h.enq THEN Append(isr, h.full) ELSE isr
        /\ SREG_I' = ~h.s.halted
  /\ obs' = PhaseTxn(obs, dev)
  /\ UNCHANGED <<pc, p_aci_cmd, was_full, p_aci_data, ret, txn>>
  /\ UNCHANGED qvars

\* The innermost handler invocation finishes: the mask decision and the
\* return from the interrupt.
ISRReturn ==
  /\ isr # <<>> /\ ~halted
  /\ Assign(m_rdy_line_handle_tail(Cur, isr[Len(isr)]))
  /\ isr' = SubSeq(isr, 1, Len(isr) - 1)
  /\ SREG_I' = TRUE
  /\ UNCHANGED <<pc, p_aci_cmd, was_full, p_aci_data, ret, txn, obs>>
  /\ UNCHANGED <<used, qvars>>

Init ==
  /\ QInitVars
  /\ interface_is_interrupt \in BOOLEAN
  /\ TInitVars
  /\ obs = ObsInit

Next ==
  \/ \E p \in CmdInputs : SendCall(p)
  \/ SendTail
  \/ SendReqn
  \/ \E rdyn \in {0, 1}, dev \in DevInputs \cup {NoDev}, stack \in StackVals :
        \E over \in OverFor(dev) : GetCall(rdyn, dev, stack, over)
  \/ GetDeq
  \/ GetHead
  \/ GetUnmask
  \/ \E rdyn \in {0, 1}, dev \in DevInputs \cup {NoDev}, stack \in StackVals :
        \E over \in OverFor(dev) : PeekCall(rdyn, dev, stack, over)
  \/ \E which \in {"rx_q_empty", "rx_q_full", "tx_q_empty", "tx_q_full"} :
        QueueState(which)
  \/ \E dev \in DevInputs, stack \in StackVals :
        \E over \in OverFor(dev) : ISR(dev, stack, over)
  \/ ISRReturn

Spec == Init /\ [][Next]_vars

\* --------------------------------------------- the transport with flushes
\* m_aci_q_flush: both queues re-initialised between noInterrupts() and
\* interrupts(); the request line, the mask and received_data are not touched.
Flush ==
  /\ MainRuns /\ pc = "idle"
  /\ used < MaxInputs
  /\ used' = used + 1
  /\ aci_tx_q' = m_aci_q_init(aci_tx_q.aci_data)
  /\ aci_rx_q' = m_aci_q_init(aci_rx_q.aci_data)
  /\ SREG_I' = TRUE
  /\ ret' = [op |-> "flush", val |-> TRUE]
  /\ obs' = NormObs([obs EXCEPT !.pk_valid = FALSE, !.pk_chk = FALSE,
                                !.phase = "off", !.ev = NoDev])
  /\ UNCHANGED <<interface_is_interrupt, received_data, reqn, attached,
                 EIMSK_INT1, pc, p_aci_cmd, was_full, p_aci_data, isr, halted,
                 txn>>
  /\ UNCHANGED qvars

NextFlush ==
  \/ Next
  \/ Flush

SpecFlush == Init /\ [][NextFlush]_vars

\* ------------------------------------- the transaction engine, called directly
\* hal_aci_tl_poll_get called with the device driving any length byte; the
\* transaction is recorded in txn.
PollGet(dev, stack) ==
  /\ MainRuns /\ pc = "idle"
  /\ used < MaxInputs
  /\ used' = used + 1
  /\ Assign(hal_aci_tl_poll_get(Cur, dev, stack))
  /\ txn' = poll_get_txn(Cur, dev, stack)
  /\ UNCHANGED <<SREG_I, pc, p_aci_cmd, was_full, p_aci_data, isr, ret, obs>>
  /\ UNCHANGED qvars

AllDevInputs == [status : DevStatus, len : Byte, val : PayloadVals]

InitTxn ==
  /\ QInitVars
  /\ interface_is_interrupt \in BOOLEAN
  /\ TInitVars
  /\ obs = ObsInit

NextTxn ==
  \/ \E p \in CmdInputs : SendCall(p)
  \/ SendTail
  \/ SendReqn
  \/ \E dev \in AllDevInputs, stack \in StackVals : PollGet(dev, stack)

SpecTxn == InitTxn /\ [][NextTxn]_vars

\* -------------------------------------------- one queue, called directly
\* Packets handed to m_aci_q_enqueue: hal_aci_tl_send hands on packets of
\* length <= HAL_ACI_MAX_LENGTH, the handler hands on received_data with the
\* length byte the device declared.
QueueInputs == {MkPacket(len, v) : len \in DevLens, v \in PayloadVals}

QEnqueue(p, over) ==
  /\ nenq < MaxOps
  /\ LET r == m_aci_q_enqueue(tq, p, over)
     IN /\ tq' = r.q
        /\ nenq' = IF r.ret THEN nenq + 1 ELSE nenq
        /\ fifo' = IF r.ret THEN Append(fifo, p) ELSE fifo
        /\ last' = [op |-> "enqueue", ret |-> r.ret, data |-> ZeroPacket,
                    arg |-> p, cnt |-> nenq - ndeq, expect |-> ZeroPacket]
  /\ ndeq' = ndeq
  /\ UNCHANGED tvars

QDequeue ==
  /\ LET r == m_aci_q_dequeue(tq, ZeroPacket)
     IN /\ tq' = r.q
        /\ ndeq' = IF r.ret THEN ndeq + 1 ELSE ndeq
        /\ fifo' = IF r.ret THEN Tail(fifo) ELSE fifo
        /\ last' = [op |-> "dequeue", ret |-> r.ret, data |-> r.data,
                    arg |-> ZeroPacket, cnt |-> nenq - ndeq,
                    expect |-> IF fifo = <<>> THEN ZeroPacket ELSE Head(fifo)]
  /\ nenq' = nenq
  /\ UNCHANGED tvars

QPeek ==
  /\ LET r == m_aci_q_peek(tq, ZeroPacket)
     IN last' = [op |-> "peek", ret |-> r.ret, data |-> r.data,
                 arg |-> ZeroPacket, cnt |-> nenq - ndeq,
                 expect |-> IF fifo = <<>> THEN ZeroPacket ELSE Head(fifo)]
  /\ UNCHANGED <<tq, nenq, ndeq, fifo>>
  /\ UNCHANGED tvars

QIsEmpty ==
  /\ last' = [op |-> "is_empty", ret |-> m_aci_q_is_empty(tq),
              data |-> ZeroPacket, arg |-> ZeroPacket, cnt |-> nenq - ndeq,
              expect |-> ZeroPacket]
  /\ UNCHANGED <<tq, nenq, ndeq, fifo>>
  /\ UNCHANGED tvars

QIsFull ==
  /\ last' = [op |-> "is_full", ret |-> m_aci_q_is_full(tq),
              data |-> ZeroPacket, arg |-> ZeroPacket, cnt |-> nenq - ndeq,
              expect |-> ZeroPacket]
  /\ UNCHANGED <<tq, nenq, ndeq, fifo>>
  /\ UNCHANGED tvars

InitQ ==
  /\ QInitVars
  /\ interface_is_interrupt = FALSE
  /\ TInitVars
  /\ obs = ObsInit

NextQ ==
  \/ \E p \in QueueInputs, over \in OverreadVals : QEnqueue(p, over)
  \/ QDequeue
  \/ QPeek
  \/ QIsEmpty
  \/ QIsFull

SpecQ == InitQ /\ [][NextQ]_vars

\* ------------------------------------------------- properties of a queue
Count == nenq - ndeq

\* C1: successful enqueues minus successful dequeues stays within
\* 0..ACI_QUEUE_SIZE-1; m_aci_q_is_empty is true exactly at 0 and
\* m_aci_q_is_full exactly at ACI_QUEUE_SIZE-1; enqueue fails exactly at
\* ACI_QUEUE_SIZE-1 and dequeue fails exactly at 0.
C1_CountAgrees ==
  /\ Count \in 0..(ACI_QUEUE_SIZE - 1)
  /\ m_aci_q_is_empty(tq) <=> (Count = 0)
  /\ m_aci_q_is_full(tq) <=> (Count = ACI_QUEUE_SIZE - 1)
  /\ last.op = "is_empty" => (last.ret <=> (last.cnt = 0))
  /\ last.op = "is_full" => (last.ret <=> (last.cnt = ACI_QUEUE_SIZE - 1))
  /\ last.op = "enqueue" => (~last.ret <=> (last.cnt = ACI_QUEUE_SIZE - 1))
  /\ last.op = "dequeue" => (~last.ret <=> (last.cnt = 0))

\* An enqueue was refused on a queue whose indices have wrapped round.
C1_Witness ==
  /\ last.op = "enqueue" /\ ~last.ret
  /\ ndeq >= 1 /\ tq.tail < tq.head
  /\ Count = ACI_QUEUE_SIZE - 1

\* C2: the i-th successful dequeue returns the packet of the i-th successful
\* enqueue (fifo holds the enqueued packets that are still due, in order).
C2_Fifo ==
  (last.op = "dequeue" /\ last.ret) => SamePacket(last.data, last.expect)

\* C3: a packet of length <= HAL_ACI_MAX_LENGTH comes back from dequeue or
\* peek with its length byte, its payload bytes and status byte 0.
C3_RoundTrip ==
  (last.op \in {"dequeue", "peek"} /\ last.ret
     /\ last.expect.buffer[0] <= HAL_ACI_MAX_LENGTH)
  => (SamePacket(last.data, last.expect) /\ last.data.status_byte = 0)

\* --------------------------------------------- properties of the transport
Min(a, b) == IF a < b THEN a ELSE b
Max(a, b) == IF a > b THEN a ELSE b

\* The slots of q that hold a packet.
Live(q) ==
  {i \in SlotIdx :
     (i - q.head + ACI_QUEUE_SIZE) % ACI_QUEUE_SIZE
       < (q.tail - q.head + ACI_QUEUE_SIZE) % ACI_QUEUE_SIZE}

\* C4: send is accepted exactly when the length byte is at most
\* HAL_ACI_MAX_LENGTH and the outgoing queue is not full; an accepted packet
\* is appended and the call ends driving the request line low and returning
\* true; a refused one returns false and leaves the outgoing queue and the
\* request line alone.
C4_SendContract ==
  [][ /\ \A p \in CmdInputs :
           SendCall(p) =>
             LET accept == p.buffer[0] <= HAL_ACI_MAX_LENGTH
                           /\ ~m_aci_q_is_full(aci_tx_q)
             IN /\ (pc' = "send_tail") <=> accept
                /\ accept => (p_aci_cmd' = p /\ ret' = ret)
                /\ ~accept => /\ ret' = [op |-> "send", val |-> FALSE]
                              /\ pc' = "idle"
                              /\ aci_tx_q' = aci_tx_q
                              /\ reqn' = reqn
      /\ SendTail =>
           /\ aci_tx_q'.tail = (aci_tx_q.tail + 1) % ACI_QUEUE_SIZE
           /\ aci_tx_q'.head = aci_tx_q.head
           /\ SamePacket(SlotAt(aci_tx_q', aci_tx_q.tail), p_aci_cmd)
      /\ SendReqn => (reqn' = 0 /\ ret' = [op |-> "send", val |-> TRUE])
      /\ (ret'.op = "send" /\ ret'.val /\ ret' # ret) => SendReqn
    ]_vars

\* send has returned true on an outgoing queue whose tail has wrapped round.
C4_Witness ==
  /\ ret = [op |-> "send", val |-> TRUE] /\ reqn = 0
  /\ aci_tx_q.tail < aci_tx_q.head

\* C5: a transaction exchanges min(HAL_ACI_MAX_LENGTH, Ld) bytes after the
\* header when the host sends nothing and
\* min(HAL_ACI_MAX_LENGTH, max(Ld, Lh - 1)) when it sends Lh > 0 bytes, and
\* stores no received byte above index HAL_ACI_MAX_LENGTH.
C5_Negotiation ==
  txn.n = 1 =>
    /\ txn.max_bytes =
         IF txn.Lh = 0 THEN Min(HAL_ACI_MAX_LENGTH, txn.Ld)
         ELSE Min(HAL_ACI_MAX_LENGTH, Max(txn.Ld, txn.Lh - 1))
    /\ txn.last_idx <= HAL_ACI_MAX_LENGTH

\* The host drove the length of a transaction and the device declared more
\* than fits.
C5_Witness ==
  /\ txn.n = 1 /\ txn.Lh = HAL_ACI_MAX_LENGTH /\ txn.Ld = 0
  /\ txn.max_bytes = HAL_ACI_MAX_LENGTH - 1

\* C6: the mask is set exactly by a handler whose enqueue filled the incoming
\* queue, and cleared exactly by the event_get whose dequeue took the queue
\* from full to not full.
C6_Backpressure ==
  [][ /\ (EIMSK_INT1 /\ ~EIMSK_INT1') => (ISRReturn /\ isr[Len(isr)])
      /\ (ISRReturn /\ isr[Len(isr)]) => ~EIMSK_INT1'
      /\ (~EIMSK_INT1 /\ EIMSK_INT1') => (GetUnmask /\ obs.deq_full)
      /\ (GetUnmask /\ obs.deq_full /\ interface_is_interrupt) => EIMSK_INT1'
    ]_vars

\* C7: in edge-interrupt mode the handler never reaches while(1).
C7_NoHalt == interface_is_interrupt => ~halted

\* C8: every packet held in either queue has a length byte of at most
\* HAL_ACI_MAX_LENGTH.
C8_LengthBound ==
  /\ \A i \in Live(aci_tx_q) : SlotAt(aci_tx_q, i).buffer[0] <= HAL_ACI_MAX_LENGTH
  /\ \A i \in Live(aci_rx_q) : SlotAt(aci_rx_q, i).buffer[0] <= HAL_ACI_MAX_LENGTH

\* The packet data is the event ev: its length byte and every payload byte.
EventDelivered(data, ev) ==
  /\ data.buffer[0] = ev.len
  /\ \A k \in 1..ev.len : k \in BufIdx /\ data.buffer[k] = DevByte(ev, k)

\* C9: after init, an accepted send and one transaction in which the device
\* delivers an event of length >= 1, the next event_get returns that event
\* and the one after it returns false.
C9_EndToEnd_Original ==
  /\ (obs.phase = "got" /\ ret.op = "get") =>
        (ret.val /\ EventDelivered(p_aci_data, obs.ev))
  /\ (obs.phase = "done" /\ ret.op = "get") => ~ret.val

\* C9, amended: the same for an event of length 1..HAL_ACI_MAX_LENGTH.
C9_EndToEnd ==
  obs.ev.len <= HAL_ACI_MAX_LENGTH => C9_EndToEnd_Original

\* The scenario has run to its end in edge-interrupt mode.
C9_Witness ==
  /\ obs.phase = "done" /\ ret = [op |-> "get", val |-> FALSE]
  /\ obs.ev.len = HAL_ACI_MAX_LENGTH /\ interface_is_interrupt
  /\ EventDelivered(p_aci_data, obs.ev)

\* C10: event_peek leaves the head of the incoming queue alone; the event_get
\* after a successful peek returns the packet peeked; on an empty incoming
\* queue peek and get return false and leave the queue alone.
C10_PeekThenGet ==
  /\ [][ /\ \A rdyn \in {0, 1}, dev \in DevInputs \cup {NoDev},
               stack \in StackVals, over \in OverreadVals :
              PeekCall(rdyn, dev, stack, over) =>
                /\ aci_rx_q'.head = aci_rx_q.head
                /\ rdyn = 1 => aci_rx_q' = aci_rx_q
                /\ (m_aci_q_is_empty(aci_rx_q') /\ ~halted') =>
                      ret' = [op |-> "peek", val |-> FALSE]
         /\ (GetDeq /\ m_aci_q_is_empty(aci_rx_q)) =>
              (ret' = [op |-> "get", val |-> FALSE] /\ aci_rx_q' = aci_rx_q)
       ]_vars
  /\ [](obs.pk_chk => (ret = [op |-> "get", val |-> TRUE] /\ p_aci_data = obs.pk))

\* ------------------------------------------- properties under preemption
\* One step on a queue (q before, q2 after) moves tail by one slot and never
\* onto head, moves head by one slot and only off a held packet, and leaves
\* every packet that is held before and after as it was.
QueueSafeStep(q, q2) ==
  /\ q2.head \in SlotIdx /\ q2.tail \in SlotIdx
  /\ q2.tail # q.tail =>
       (q2.tail = (q.tail + 1) % ACI_QUEUE_SIZE /\ q2.tail # q.head)
  /\ q2.head # q.head =>
       (q.head # q.tail /\ q2.head = (q.head + 1) % ACI_QUEUE_SIZE)
  /\ \A i \in Live(q) \cap Live(q2) : SlotAt(q2, i) = SlotAt(q, i)

\* C11: in edge-interrupt mode, while send or event_get is between two of
\* its steps, every step (of the preempting handler or of the call itself)
\* keeps both queues intact: head and tail in range, occupancy at most
\* ACI_QUEUE_SIZE-1, no held packet changed, and a packet the handler
\* appends is the one it received.
C11_PreemptionSafe ==
  [][ (interface_is_interrupt /\ pc # "idle") =>
        /\ QueueSafeStep(aci_tx_q, aci_tx_q')
        /\ QueueSafeStep(aci_rx_q, aci_rx_q')
        /\ aci_rx_q'.tail # aci_rx_q.tail =>
             SamePacket(SlotAt(aci_rx_q', aci_rx_q.tail), received_data')
    ]_vars

\* C12: at most one invocation of the ready-line handler is active.
C12_NoReentry == Len(isr) <= 1

\* C14: with the main context between API calls and no handler running, the
\* request line is low only while the outgoing queue holds a packet.
C14_ReqnImpliesTx ==
  (MainRuns /\ pc = "idle" /\ reqn = 0) => ~m_aci_q_is_empty(aci_tx_q)

\* C17: in edge-interrupt mode, with the main context between API calls and
\* no handler running, the ready-line interrupt is masked only while the
\* incoming queue is full.
C17_MaskImpliesFull ==
  (interface_is_interrupt /\ MainRuns /\ pc = "idle" /\ ~EIMSK_INT1)
    => m_aci_q_is_full(aci_rx_q)

\* C19: in host-polled mode the handler never reaches while(1).
C19_NoHaltPolled == ~interface_is_interrupt => ~halted

\* ------------------------------------------- properties of one transaction
\* The pin events of one transaction are in order: the request line is
\* written low first, every byte is exchanged after that and before the
\* request line is written high.
IoShape(io) ==
  LET spis == {i \in 1..Len(io) : io[i].op = "spi"}
      highs == {i \in 1..Len(io) : io[i] = ReqnWrite(1)}
  IN /\ Len(io) >= 4
     /\ io[1] = ReqnWrite(0)
     /\ spis # {}
     /\ \A i \in spis : i > 1
     /\ \E h \in highs : \A i \in spis : i < h

\* C13: one call of hal_aci_tl_poll_get takes at most one packet (the head
\* one) off the outgoing queue, fills received_data with the one packet the
\* device drove, writes the request line low before the first byte and high
\* after the last, and returns with the request line low exactly when the
\* outgoing queue still holds a packet.
C13_Transaction ==
  /\ [][ \A dev \in AllDevInputs, stack \in StackVals :
           PollGet(dev, stack) =>
             /\ aci_tx_q'.tail = aci_tx_q.tail
             /\ aci_tx_q'.head =
                  IF m_aci_q_is_empty(aci_tx_q) THEN aci_tx_q.head
                  ELSE (aci_tx_q.head + 1) % ACI_QUEUE_SIZE
             /\ txn'.took <=> ~m_aci_q_is_empty(aci_tx_q)
             /\ received_data'.status_byte = dev.status
             /\ received_data'.buffer[0] = dev.len
             /\ (reqn' = 0) <=> ~m_aci_q_is_empty(aci_tx_q')
             /\ txn'.io[Len(txn'.io)] = ReqnWrite(reqn')
       ]_vars
  /\ [](txn.n = 1 => IoShape(txn.io))

\* A transaction in edge-interrupt mode took a packet and lowered the
\* request line again for the next one.
C13_Witness ==
  /\ txn.n = 1 /\ txn.took /\ interface_is_interrupt
  /\ txn.io[Len(txn.io)] = ReqnWrite(0)
  /\ ~m_aci_q_is_empty(aci_tx_q)

\* C15: in one transaction the host sends the length byte Lh, then payload
\* bytes 1..Lh of the outgoing packet, then zero for every further byte; the
\* bytes received after the device's length byte are stored in order at
\* buffer[1], buffer[2], ...; with Ld <= HAL_ACI_MAX_LENGTH the whole event
\* is stored.
C15_ByteStreams ==
  txn.n = 1 =>
    LET io == txn.io
        sent(k) == io[2 + k].tx
        recv(k) == io[3 + k].rx
    IN /\ sent(0) = txn.Lh
       /\ \A k \in 1..(txn.max_bytes + 1) :
            sent(k) = IF k <= txn.Lh THEN txn.cmd.buffer[k] ELSE 0
       /\ received_data.status_byte = io[2].rx
       /\ received_data.buffer[0] = io[3].rx
       /\ \A k \in 1..txn.max_bytes : received_data.buffer[k] = recv(k)
       /\ txn.Ld <= HAL_ACI_MAX_LENGTH => txn.max_bytes >= txn.Ld

\* ------------------------------------------------ properties of the line check
\* C16: in host-polled mode a line check that finds the ready line high
\* drives the request line low exactly when the outgoing queue holds a
\* packet and the incoming queue has room, and changes nothing else; in
\* edge-interrupt mode event_peek and event_get run no line check and no
\* transaction.  (A call that finds the ready line high, and every call in
\* edge-interrupt mode, is a step with rdyn = 1 and no device input.)
C16_SpeculativeRequest ==
  [][ \A stack \in StackVals :
        (GetCall(1, NoDev, stack, 0) \/ PeekCall(1, NoDev, stack, 0))
        => /\ ~interface_is_interrupt =>
                /\ aci_tx_q' = aci_tx_q /\ aci_rx_q' = aci_rx_q
                /\ received_data' = received_data
                /\ reqn' = IF ~m_aci_q_is_empty(aci_tx_q)
                              /\ ~m_aci_q_is_full(aci_rx_q)
                           THEN 0 ELSE reqn
           /\ interface_is_interrupt =>
                /\ aci_tx_q' = aci_tx_q /\ aci_rx_q' = aci_rx_q
                /\ received_data' = received_data
                /\ reqn' = reqn /\ attached' = attached
                /\ used' = used
    ]_vars

\* In host-polled mode, after one accepted send and no transaction, an
\* event_peek has found the ready line high and the incoming queue empty and
\* has left the request line low.
C16_Witness ==
  /\ ~interface_is_interrupt /\ used = 1
  /\ ret = [op |-> "peek", val |-> FALSE]
  /\ ~m_aci_q_is_empty(aci_tx_q) /\ ~m_aci_q_is_full(aci_rx_q)
  /\ reqn = 0

\* ------------------------------------------------------------- progress
\* In edge-interrupt mode the interrupt is masked, no handler is running,
\* the incoming queue has room and no running event_get is about to unmask.
Stuck ==
  /\ interface_is_interrupt /\ ~EIMSK_INT1 /\ isr = <<>>
  /\ ~m_aci_q_is_full(aci_rx_q)
  /\ pc \in {"get_deq", "get_head", "get_unmask"} => ~was_full

\* A state that is Stuck stays so, and no transaction runs from it.
StuckStays ==
  [][Stuck => (Stuck' /\ aci_tx_q'.head = aci_tx_q.head)]_vars

\* C18: the link never reaches a state in which the outgoing queue holds a
\* packet and no transaction can run any more (the handler spins in
\* while(1), or the interrupt stays masked for good).
C18_Progress ==
  ~(~m_aci_q_is_empty(aci_tx_q) /\ (halted \/ Stuck))

\* ------------------------------------------------ properties of empty events
\* C20: a transaction in which the device declares length 0 leaves the
\* incoming queue and the interrupt mask alone; every packet held in the
\* incoming queue and every packet event_get or event_peek returns with true
\* has a length byte of at least 1.
C20_NoEmptyEvent ==
  /\ [][ \A dev \in DevInputs \cup {NoDev}, stack \in StackVals,
            over \in OverreadVals :
           (dev.len = 0 /\ (\/ ISR(dev, stack, over)
                            \/ GetCall(0, dev, stack, over)
                            \/ PeekCall(0, dev, stack, over)))
           => (aci_rx_q' = aci_rx_q /\ EIMSK_INT1' = EIMSK_INT1)
       ]_vars
  /\ [](\A i \in Live(aci_rx_q) : SlotAt(aci_rx_q, i).buffer[0] >= 1)
  /\ []((ret.op \in {"get", "peek"} /\ ret.val) => p_aci_data.buffer[0] >= 1)

====
